---- MODULE Spec2Model ----
(***************************************************************************)
(* A model of frame_calculator: the Timoshenko beam stiffness generators   *)
(* of line.py (stiffness_local, stiffness_global) and the section          *)
(* dispatch of section.py (convert, properties).                           *)
(*                                                                         *)
(* Numbers.  Python computes in binary floating point; the model computes  *)
(* in exact rational arithmetic, a number being a pair <<n, d>> in lowest  *)
(* terms with d > 0.  The pairs <<1, 0>>, <<-1, 0>> and <<0, 0>> stand for *)
(* +inf, -inf and nan, which numpy scalars produce where a Python float    *)
(* raises ZeroDivisionError.  Rounding and overflow are not modelled.      *)
(***************************************************************************)
EXTENDS Integers, Sequences, FiniteSets, TLC

VARIABLES fn, args, lframe, gframe, tcalls, out, err,
          section_parameters, original, calls

lineVars == <<fn, args, lframe, gframe, tcalls, out, err>>

sectionVars == <<section_parameters, original, calls>>

vars == <<fn, args, lframe, gframe, tcalls, out, err,
          section_parameters, original, calls>>

------------------------------------------------------------------------------
(* Bounds of the model *)

\* the length L of stiffness_local is drawn from -1 .. MaxLen
MaxLen == 2

\* the area Ax of stiffness_local is drawn from -1 .. MaxArea
MaxArea == 2

\* the other arguments of stiffness_local are drawn from -1 .. MaxVal
MaxVal == 1

\* stiffness_global's direction is a base direction scaled by 0 .. MaxScale
MaxScale == 1

\* stiffness_global's theta is 0 .. MaxTurn quarter turns
MaxTurn == 1

\* the material and section arguments of stiffness_global that are not 1
\* are drawn from -1 .. MaxGVal
MaxGVal == 1

\* the dimensions of a section are drawn from 0 .. MaxDim
MaxDim == 1

\* the caller calls convert and properties at most MaxCalls times
MaxCalls == 2

------------------------------------------------------------------------------
(* Arithmetic *)

Abs(n) == IF n < 0 THEN 0 - n ELSE n

Sign(n) == IF n < 0 THEN 0 - 1 ELSE IF n > 0 THEN 1 ELSE 0

RECURSIVE GCD(_, _)
GCD(a, b) == IF b = 0 THEN a ELSE GCD(b, a % b)

\* the number n/d in canonical form; d = 0 gives +inf, -inf or nan
Norm(n, d) ==
    IF d = 0 THEN <<Sign(n), 0>>
    ELSE IF n = 0 THEN <<0, 1>>
    ELSE LET g == GCD(Abs(n), Abs(d))
             sg == Sign(d)
         IN  <<(sg * n) \div g, (sg * d) \div g>>

R(n) == <<n, 1>>

Zero == <<0, 1>>

IsFinite(x) == x[2] # 0

RNeg(x) == <<0 - x[1], x[2]>>

RMul(x, y) ==
    IF x = Zero /\ IsFinite(y) THEN Zero
    ELSE IF y = Zero /\ IsFinite(x) THEN Zero
    ELSE Norm(x[1] * y[1], x[2] * y[2])

RAdd(x, y) ==
    IF x = Zero THEN y
    ELSE IF y = Zero THEN x
    ELSE IF IsFinite(x) /\ IsFinite(y)
         THEN Norm(x[1] * y[2] + y[1] * x[2], x[2] * y[2])
    ELSE IF x = <<0, 0>> \/ y = <<0, 0>> THEN <<0, 0>>
    ELSE IF ~IsFinite(x) /\ ~IsFinite(y)
         THEN (IF x = y THEN x ELSE <<0, 0>>)
    ELSE IF IsFinite(x) THEN y ELSE x

RSub(x, y) == RAdd(x, RNeg(y))

\* x / y where no ZeroDivisionError is raised: y is nonzero, or the
\* division is numpy's, which gives inf or nan for a zero divisor
RDiv(x, y) == Norm(x[1] * y[2], x[2] * y[1])

RLeq(x, y) == x[1] * y[2] <= y[1] * x[2]

------------------------------------------------------------------------------
(* line.py: stiffness_local *)

UpTo(max) == {0 - 1} \cup (0 .. max)

LocalArgs ==
    [L : UpTo(MaxLen), E : UpTo(MaxVal), G : UpTo(MaxVal), Ax : UpTo(MaxArea),
     Iz : UpTo(MaxVal), Iy : UpTo(MaxVal), Ay : UpTo(MaxVal),
     Az : UpTo(MaxVal), J : UpTo(MaxVal)]

\* DefaultAy had the substitute been the other shear area
DefaultAyFromAz(p) == IF p.Ay = 0 THEN p.Az ELSE p.Ay

\* lines 42-45: a zero shear area defaults to Ax
DefaultAy(p) == IF p.Ay = 0 THEN p.Ax ELSE p.Ay

DefaultAz(p) == IF p.Az = 0 THEN p.Ax ELSE p.Az

\* 12. * I / G / A / L / L * E, evaluated left to right (lines 46, 47)
Phi(I, G, A, L, E) ==
    IF I # 0
    THEN RMul(RDiv(RDiv(RDiv(RDiv(RMul(R(12), R(I)), R(G)), R(A)), R(L)), R(L)), R(E))
    ELSE Zero

\* I / (phi + 1) / L / L * E (lines 50, 51)
KPre(I, phi, L, E) ==
    RMul(RDiv(RDiv(RDiv(R(I), RAdd(phi, R(1))), R(L)), R(L)), R(E))

\* Whether lines 42-71 raise ZeroDivisionError.  np says that L is a numpy
\* scalar (as when stiffness_global passes norm(...)): a division whose
\* operands include a numpy scalar gives inf or nan instead of raising.
LocalRaises(p, np) ==
    LET Ay == DefaultAy(p)
        Az == DefaultAz(p)
    IN  \/ p.Iz # 0 /\ (p.G = 0 \/ Ay = 0 \/ (~np /\ p.L = 0))
        \/ p.Iy # 0 /\ (p.G = 0 \/ Az = 0 \/ (~np /\ p.L = 0))
        \/ ~np /\ p.L = 0
        \/ ~np /\ RAdd(Phi(p.Iz, p.G, Ay, p.L, p.E), R(1)) = Zero
        \/ ~np /\ RAdd(Phi(p.Iy, p.G, Az, p.L, p.E), R(1)) = Zero

\* Axial had the length multiplied instead of divided
AxialTimesL(p) == RMul(RMul(R(p.Ax), R(p.L)), R(p.E))

\* line 48
Axial(p) == RMul(RDiv(R(p.Ax), R(p.L)), R(p.E))

\* line 49
Torsion(p) == RMul(RDiv(R(p.J), R(p.L)), R(p.G))

\* lines 52-61: the z-bending family
ZFamily(kzPre, phiY, L) ==
    LET kz11 == RMul(kzPre, R(12))
        kz12 == RMul(RMul(L, kzPre), R(6))
        kz13 == RNeg(kz11)
        kz14 == kz12
        kz22 == RMul(RMul(RMul(RAdd(phiY, R(4)), kzPre), L), L)
        kz23 == RNeg(kz12)
        kz24 == RMul(RMul(RMul(RSub(R(2), phiY), kzPre), L), L)
        kz33 == kz11
        kz34 == kz23
        kz44 == kz22
    IN  [kz11 |-> kz11, kz12 |-> kz12, kz13 |-> kz13, kz14 |-> kz14,
         kz22 |-> kz22, kz23 |-> kz23, kz24 |-> kz24,
         kz33 |-> kz33, kz34 |-> kz34, kz44 |-> kz44]

\* YFamily had ky12 the sign of kz12
YFamilyPlus(kyPre, phiZ, L) ==
    LET ky11 == RMul(kyPre, R(12))
        ky12 == RMul(RMul(L, kyPre), R(6))
        ky13 == RNeg(ky11)
        ky14 == ky12
        ky22 == RMul(RMul(RMul(RAdd(phiZ, R(4)), kyPre), L), L)
        ky23 == RNeg(ky12)
        ky24 == RMul(RMul(RMul(RSub(R(2), phiZ), kyPre), L), L)
        ky33 == ky11
        ky34 == ky23
        ky44 == ky22
    IN  [ky11 |-> ky11, ky12 |-> ky12, ky13 |-> ky13, ky14 |-> ky14,
         ky22 |-> ky22, ky23 |-> ky23, ky24 |-> ky24,
         ky33 |-> ky33, ky34 |-> ky34, ky44 |-> ky44]

\* lines 62-71: the y-bending family
YFamily(kyPre, phiZ, L) ==
    LET ky11 == RMul(kyPre, R(12))
        ky12 == RMul(RMul(RNeg(L), kyPre), R(6))
        ky13 == RNeg(ky11)
        ky14 == ky12
        ky22 == RMul(RMul(RMul(RAdd(phiZ, R(4)), kyPre), L), L)
        ky23 == RNeg(ky12)
        ky24 == RMul(RMul(RMul(RSub(R(2), phiZ), kyPre), L), L)
        ky33 == ky11
        ky34 == ky23
        ky44 == ky22
    IN  [ky11 |-> ky11, ky12 |-> ky12, ky13 |-> ky13, ky14 |-> ky14,
         ky22 |-> ky22, ky23 |-> ky23, ky24 |-> ky24,
         ky33 |-> ky33, ky34 |-> ky34, ky44 |-> ky44]

\* The local variables of stiffness_local at its first yield (lines 42-71)
Locals(p) ==
    LET Ay == DefaultAy(p)
        Az == DefaultAz(p)
        phiY == Phi(p.Iz, p.G, Ay, p.L, p.E)
        phiZ == Phi(p.Iy, p.G, Az, p.L, p.E)
        kzPre == KPre(p.Iz, phiY, p.L, p.E)
        kyPre == KPre(p.Iy, phiZ, p.L, p.E)
    IN  [a |-> Axial(p), s |-> Torsion(p)]
            @@ ZFamily(kzPre, phiY, R(p.L)) @@ YFamily(kyPre, phiZ, R(p.L))

\* the tuples of the four yield statements, built from the locals v
\* lines 72-79
Yield1(v) ==
    LET O == Zero
    IN  << <<v.a, O, O, O, O, O>>,
           <<O, v.kz11, O, O, O, v.kz12>>,
           <<O, O, v.ky11, O, v.ky12, O>>,
           <<O, O, O, v.s, O, O>>,
           <<O, O, v.ky12, O, v.ky22, O>>,
           <<O, v.kz12, O, O, O, v.kz22>> >>

\* lines 80-87
Yield2(v) ==
    LET O == Zero
    IN  << <<RNeg(v.a), O, O, O, O, O>>,
           <<O, v.kz13, O, O, O, v.kz14>>,
           <<O, O, v.ky13, O, v.ky14, O>>,
           <<O, O, O, RNeg(v.s), O, O>>,
           <<O, O, v.ky23, O, v.ky24, O>>,
           <<O, v.kz23, O, O, O, v.kz24>> >>

\* Yield3 had the third tuple been a copy of the second
Yield3AsYield2(v) == Yield2(v)

\* lines 88-95
Yield3(v) ==
    LET O == Zero
    IN  << <<RNeg(v.a), O, O, O, O, O>>,
           <<O, v.kz13, O, O, O, v.kz23>>,
           <<O, O, v.ky13, O, v.ky23, O>>,
           <<O, O, O, RNeg(v.s), O, O>>,
           <<O, O, v.ky14, O, v.ky24, O>>,
           <<O, v.kz14, O, O, O, v.kz24>> >>

\* Yield4 had the fourth tuple been a copy of the first
Yield4AsYield1(v) == Yield1(v)

\* lines 96-103
Yield4(v) ==
    LET O == Zero
    IN  << <<v.a, O, O, O, O, O>>,
           <<O, v.kz33, O, O, O, v.kz34>>,
           <<O, O, v.ky33, O, v.ky34, O>>,
           <<O, O, O, v.s, O, O>>,
           <<O, O, v.ky34, O, v.ky44, O>>,
           <<O, v.kz34, O, O, O, v.kz44>> >>

\* the tuple of the k-th yield statement
YieldTuple(k, v) ==
    CASE k = 1 -> Yield1(v)
      [] k = 2 -> Yield2(v)
      [] k = 3 -> Yield3(v)
      [] k = 4 -> Yield4(v)

NoLocals == <<>>

NoValue == <<>>

\* a generator object of stiffness_local that has not started
NewLocal == [pc |-> 0, loc |-> NoLocals]

\* the first yield (line 72), the locals v being computed
FirstYield(v) ==
    [frame |-> [pc |-> 1, loc |-> v], kind |-> "yield", value |-> YieldTuple(1, v)]

\* ResumeLocal had the first tuple been yielded before the coefficients
\* that can raise are computed
ResumeLocalLate(f, p, np) ==
    IF f.pc = 0
    THEN FirstYield(Locals(p))
    ELSE IF f.pc = 1 /\ LocalRaises(p, np)
    THEN [frame |-> [pc |-> 5, loc |-> NoLocals],
          kind |-> "raise", value |-> "ZeroDivisionError"]
    ELSE IF f.pc \in 1 .. 3
    THEN [frame |-> [pc |-> f.pc + 1, loc |-> f.loc],
          kind |-> "yield", value |-> YieldTuple(f.pc + 1, f.loc)]
    ELSE [frame |-> [pc |-> 5, loc |-> NoLocals],
          kind |-> "stop", value |-> NoValue]

\* One next() on a stiffness_local generator f with arguments p.  pc is the
\* number of yields passed; 5 is finished (returned or raised).
\* The first next() runs lines 42-72, the later ones resume after a yield.
ResumeLocal(f, p, np) ==
    IF f.pc = 0
    THEN IF LocalRaises(p, np)
         THEN [frame |-> [pc |-> 5, loc |-> NoLocals],
               kind |-> "raise", value |-> "ZeroDivisionError"]
         ELSE FirstYield(Locals(p))
    ELSE IF f.pc \in 1 .. 3
    THEN [frame |-> [pc |-> f.pc + 1, loc |-> f.loc],
          kind |-> "yield", value |-> YieldTuple(f.pc + 1, f.loc)]
    ELSE [frame |-> [pc |-> 5, loc |-> NoLocals],
          kind |-> "stop", value |-> NoValue]

------------------------------------------------------------------------------
(* matrix.py: transformMatrix.  The file is not part of the sources at    *)
(* hand; the transform is modelled from section 4.2 of the specification, *)
(* with the columns of the matrix the local axes in global coordinates,   *)
(* global y the reference axis and global z the fallback.                 *)

\* the exact square root of a perfect square
ISqrt(n) == CHOOSE k \in 0 .. n : k * k = n

RSqrt(x) == <<ISqrt(x[1]), ISqrt(x[2])>>

Dot3(u, v) == RAdd(RAdd(RMul(u[1], v[1]), RMul(u[2], v[2])), RMul(u[3], v[3]))

Cross(u, v) ==
    <<RSub(RMul(u[2], v[3]), RMul(u[3], v[2])),
      RSub(RMul(u[3], v[1]), RMul(u[1], v[3])),
      RSub(RMul(u[1], v[2]), RMul(u[2], v[1]))>>

Scale3(c, u) == <<RMul(c, u[1]), RMul(c, u[2]), RMul(c, u[3])>>

Add3(u, v) == <<RAdd(u[1], v[1]), RAdd(u[2], v[2]), RAdd(u[3], v[3])>>

Unit(u) == Scale3(RDiv(R(1), RSqrt(Dot3(u, u))), u)

\* cosine and sine of q quarter turns
Cos4(q) == CASE q % 4 = 0 -> R(1) [] q % 4 = 2 -> R(0 - 1) [] OTHER -> Zero

Sin4(q) == CASE q % 4 = 1 -> R(1) [] q % 4 = 3 -> R(0 - 1) [] OTHER -> Zero

\* a zero-length direction is an invalid-geometry error
TransformRaises(x, y, z) == x = 0 /\ y = 0 /\ z = 0

\* the matrix whose columns are ex, ey, ez
Columns(ex, ey, ez) ==
    <<<<ex[1], ey[1], ez[1]>>, <<ex[2], ey[2], ez[2]>>, <<ex[3], ey[3], ez[3]>>>>

\* ey0 and ez0 rolled by theta about ex
Rolled(ex, ey0, ez0, theta) ==
    Columns(ex,
            Add3(Scale3(Cos4(theta), ey0), Scale3(Sin4(theta), ez0)),
            Add3(Scale3(RNeg(Sin4(theta)), ey0), Scale3(Cos4(theta), ez0)))

\* local y re-orthonormalised as ez0 x ex
WithZ(ex, ez0, theta) == Rolled(ex, Cross(ez0, ex), ez0, theta)

\* local z, orthogonal to ex and the reference axis
WithX(ex, ref, theta) == WithZ(ex, Unit(Cross(ex, ref)), theta)

transformMatrix(x, y, z, theta) ==
    WithX(Unit(<<R(x), R(y), R(z)>>),
          IF x = 0 /\ z = 0 THEN <<Zero, Zero, R(1)>> ELSE <<Zero, R(1), Zero>>,
          theta)

------------------------------------------------------------------------------
(* line.py: stiffness_global *)

Six == 1 .. 6

\* the function f on 1 .. 6 as a tuple
Tup6(f) == <<f[1], f[2], f[3], f[4], f[5], f[6]>>

\* a 6x6 matrix as a tuple of six rows, each a tuple of six numbers
Mat6(M) == <<Tup6(M[1]), Tup6(M[2]), Tup6(M[3]), Tup6(M[4]), Tup6(M[5]), Tup6(M[6])>>

\* scipy.linalg.block_diag of two 3x3 matrices
block_diag(A, B) ==
    Mat6([i \in Six |-> [j \in Six |->
            IF i <= 3 /\ j <= 3 THEN A[i][j]
            ELSE IF i > 3 /\ j > 3 THEN B[i - 3][j - 3]
            ELSE Zero]])

transpose(A) == Mat6([i \in Six |-> [j \in Six |-> A[j][i]]])

\* numpy.dot of two 6x6 matrices
dot(A, B) ==
    Mat6([i \in Six |-> [j \in Six |->
            RAdd(RAdd(RAdd(RAdd(RAdd(RMul(A[i][1], B[1][j]), RMul(A[i][2], B[2][j])),
                                RMul(A[i][3], B[3][j])),
                           RMul(A[i][4], B[4][j])),
                      RMul(A[i][5], B[5][j])),
                 RMul(A[i][6], B[6][j]))]])

\* numpy.linalg.norm of (x, y, z); the directions of the model have integer norms
norm(x, y, z) == ISqrt(x * x + y * y + z * z)

\* the arguments stiffness_global passes to stiffness_local (line 145)
LocalArgsOf(g) ==
    [L |-> norm(g.x, g.y, g.z), E |-> g.E, G |-> g.G, Ax |-> g.Ax,
     Iz |-> g.Iz, Iy |-> g.Iy, Ay |-> g.Ay, Az |-> g.Az, J |-> g.J]

\* block_diag(*(T,) * 2)
Twice(T) == block_diag(T, T)

\* line 143
MakeT(g) == Twice(transformMatrix(g.x, g.y, g.z, g.theta))

\* Transformed had t and its transpose changed places
TransformedSwapped(t, m, r) == dot(dot(r, m), t)

\* line 146
Transformed(t, m, r) == dot(dot(t, m), r)

\* a generator object of stiffness_global that has not started
NewGlobal == [pc |-> 0, t |-> NoValue, r |-> NoValue, sub |-> NewLocal]

FinishedGlobal == [pc |-> 5, t |-> NoValue, r |-> NoValue, sub |-> [pc |-> 5, loc |-> NoLocals]]

\* what the loop of lines 145-146 does with the outcome res of next() on the
\* stiffness_local generator: the transformed block is yielded, an exception or
\* the end of the generator ends stiffness_global; made is the number of
\* transformMatrix calls made before the loop
LoopResult(f, res, made) ==
    IF res.kind = "yield"
    THEN [frame |-> [pc |-> f.pc + 1, t |-> f.t, r |-> f.r, sub |-> res.frame],
          kind |-> "yield", value |-> Transformed(f.t, res.value, f.r),
          calls |-> made]
    ELSE [frame |-> FinishedGlobal, kind |-> res.kind, value |-> res.value,
          calls |-> made]

\* the loop of lines 145-146 from a frame f whose t and r are set
LoopGlobal(f, g, made) ==
    LoopResult(f, ResumeLocal(f.sub, LocalArgsOf(g), TRUE), made)

\* lines 143-146 once transformMatrix has returned and t is built
StartGlobal(t, g) ==
    LoopGlobal([pc |-> 0, t |-> t, r |-> transpose(t), sub |-> NewLocal], g, 1)

\* One next() on a stiffness_global generator f with arguments g; calls counts
\* the calls of transformMatrix made.  The first next() runs lines 143-146.
ResumeGlobal(f, g) ==
    IF f.pc = 0
    THEN IF TransformRaises(g.x, g.y, g.z)
         THEN [frame |-> FinishedGlobal, kind |-> "raise",
               value |-> "GeometryError", calls |-> 1]
         ELSE StartGlobal(MakeT(g), g)
    ELSE IF f.pc \in 1 .. 4
    THEN LoopGlobal(f, g, 0)
    ELSE [frame |-> FinishedGlobal, kind |-> "stop", value |-> NoValue, calls |-> 0]

------------------------------------------------------------------------------
(* The consumer of a stiffness_local generator *)

InitLocal ==
    /\ fn = "stiffness_local"
    /\ args \in LocalArgs
    /\ lframe = NewLocal
    /\ gframe = NoValue
    /\ tcalls = 0
    /\ out = <<>>
    /\ err = "none"
    /\ section_parameters = <<>>
    /\ original = <<>>
    /\ calls = <<>>

\* what the consumer gets from next(): a block, an exception or StopIteration
Receive(res) ==
    /\ out' = IF res.kind = "yield" THEN Append(out, res.value) ELSE out
    /\ err' = IF res.kind = "raise" THEN res.value ELSE err

LocalOutcome(res) == lframe' = res.frame /\ Receive(res)

\* the consumer calls next() on the generator
NextOfLocal ==
    /\ fn = "stiffness_local"
    /\ err = "none"
    /\ lframe.pc < 5
    /\ LocalOutcome(ResumeLocal(lframe, args, FALSE))
    /\ UNCHANGED <<fn, args, gframe, tcalls, sectionVars>>

NextLocal == NextOfLocal

SpecLocal == InitLocal /\ [][NextLocal]_vars

------------------------------------------------------------------------------
(* The consumer of a stiffness_global generator *)

BaseDirs ==
    {<<1, 0, 0>>, <<0, 1, 0>>, <<0, 0, 1>>, <<0, 0 - 1, 0>>, <<3, 4, 0>>, <<0, 3, 4>>}

Directions == {<<k * d[1], k * d[2], k * d[3]>> : k \in 0 .. MaxScale, d \in BaseDirs}

SectionNames == {"E", "G", "Ax", "Iz", "Iy", "Ay", "Az", "J"}

UnitSection == [n \in SectionNames |-> 1]

\* the material and section arguments: all 1 but for at most two of them
Sections ==
    {[UnitSection EXCEPT ![n1] = v1, ![n2] = v2] :
        n1 \in SectionNames, n2 \in SectionNames,
        v1 \in UpTo(MaxGVal), v2 \in UpTo(MaxGVal)}

GlobalArgs ==
    {[x |-> d[1], y |-> d[2], z |-> d[3], theta |-> q, E |-> m.E, G |-> m.G,
      Ax |-> m.Ax, Iz |-> m.Iz, Iy |-> m.Iy, Ay |-> m.Ay, Az |-> m.Az, J |-> m.J] :
        d \in Directions, q \in 0 .. MaxTurn, m \in Sections}

InitGlobal ==
    /\ fn = "stiffness_global"
    /\ args \in GlobalArgs
    /\ lframe = NoValue
    /\ gframe = NewGlobal
    /\ tcalls = 0
    /\ out = <<>>
    /\ err = "none"
    /\ section_parameters = <<>>
    /\ original = <<>>
    /\ calls = <<>>

GlobalOutcome(res) ==
    /\ gframe' = res.frame
    /\ tcalls' = tcalls + res.calls
    /\ Receive(res)

\* the consumer calls next() on the generator
NextOfGlobal ==
    /\ fn = "stiffness_global"
    /\ err = "none"
    /\ gframe.pc < 5
    /\ GlobalOutcome(ResumeGlobal(gframe, args))
    /\ UNCHANGED <<fn, args, lframe, sectionVars>>

NextGlobal == NextOfGlobal

SpecGlobal == InitGlobal /\ [][NextGlobal]_vars

------------------------------------------------------------------------------
(* section.py.  A dictionary is a function from its keys.  The value a     *)
(* shape function returns is a dictionary of floats; the model keeps its   *)
(* keys.  The fillet radius r is 0 wherever the model supplies it, so the  *)
(* fillet terms rd, rA and rI, which are multiples of r, are 0.            *)

Returned(v) == [kind |-> "return", value |-> v]

Raised(e) == [kind |-> "raise", value |-> e]

\* f(**params): the keywords must cover the required parameters and name
\* no other than those and the optional ones
Binds(params, required, optional) ==
    /\ required \subseteq DOMAIN params
    /\ DOMAIN params \subseteq required \cup optional

RSq(x) == RMul(x, x)

RCube(x) == RMul(x, RMul(x, x))

RSum3(x, y, z) == RAdd(RAdd(x, y), z)

Twelfth(x) == RDiv(x, R(12))

\* math.sqrt(num / den) as the last steps of a shape function: what is raised, if anything
SqrtRaises(num, den) ==
    IF den = Zero THEN "ZeroDivisionError"
    ELSE IF ~RLeq(Zero, RDiv(num, den)) THEN "ValueError"
    ELSE "none"

\* the first exception among the entries of a returned dictionary
FirstRaise(es) ==
    IF \A i \in 1 .. Len(es) : es[i] = "none" THEN "none"
    ELSE es[CHOOSE i \in 1 .. Len(es) :
                /\ es[i] # "none"
                /\ \A j \in 1 .. (i - 1) : es[j] = "none"]

DivRaises(den) == IF den = Zero THEN "ZeroDivisionError" ELSE "none"

h(params) ==
    IF ~Binds(params, {"H", "B", "tw", "tf"}, {"r"}) THEN Raised("TypeError")
    ELSE
    LET H == R(params.H)
        B == R(params.B)
        tw == R(params.tw)
        tf == R(params.tf)
        rd == Zero
        rA == Zero
        rI == Zero
        web == RSub(H, RMul(tf, R(2)))
        A == RSum3(RMul(RMul(B, tf), R(2)), RMul(web, tw), RMul(rA, R(4)))
        tIfz == Twelfth(RMul(tf, RCube(B)))
        tIwz == Twelfth(RMul(web, RCube(tw)))
        tIrz == RAdd(rI, RMul(rA, RAdd(RMul(RAdd(RDiv(tw, R(4)), rd), tw), RSq(rd))))
        Iz == RSum3(RMul(tIfz, R(2)), tIwz, RMul(tIrz, R(4)))
        tIfy == RAdd(Twelfth(RMul(B, RCube(tf))),
                     RDiv(RMul(RMul(B, tf), RSq(RSub(H, tf))), R(4)))
        tIwy == Twelfth(RMul(tw, RCube(web)))
        tIry == RAdd(rI, RMul(rA, RSq(RSub(RSub(RDiv(H, R(2)), tf), rd))))
        Iy == RSum3(RMul(tIfy, R(2)), tIwy, RMul(tIry, R(4)))
        e == FirstRaise(<<DivRaises(H), DivRaises(B), SqrtRaises(Iy, A), SqrtRaises(Iz, A)>>)
    IN  IF e # "none" THEN Raised(e)
        ELSE Returned({"Ax", "Ay", "Az", "Iy", "Iz", "J", "Zy", "Zz", "iy", "iz"})

t(params) ==
    IF ~Binds(params, {"H", "B", "tw", "tf"}, {"r"}) THEN Raised("TypeError")
    ELSE
    LET H == R(params.H)
        B == R(params.B)
        tw == R(params.tw)
        tf == R(params.tf)
        rd == Zero
        rA == Zero
        rI == Zero
        web == RSub(H, tf)
        A == RSum3(RMul(B, tf), RMul(web, tw), RMul(rA, R(2)))
        Sy == RAdd(RDiv(RAdd(RMul(RSub(B, tw), RSq(tf)), RMul(RSq(H), tw)), R(2)),
                   RMul(RMul(rA, RAdd(tf, rd)), R(2)))
        Cy == RDiv(Sy, A)
        tIfz == Twelfth(RMul(tf, RCube(B)))
        tIwz == Twelfth(RMul(web, RCube(tw)))
        tIrz == RAdd(rI, RMul(rA, RSq(RAdd(RDiv(tw, R(2)), rd))))
        Iz == RSum3(tIfz, tIwz, RMul(tIrz, R(2)))
        tIfy == RAdd(Twelfth(RMul(B, RCube(tf))),
                     RMul(RMul(B, tf), RSq(RSub(Cy, RDiv(tf, R(2))))))
        tIwy == RAdd(Twelfth(RMul(tw, RCube(web))),
                     RMul(RMul(tw, web), RSq(RSub(RDiv(RAdd(H, tf), R(2)), Cy))))
        tIry == RAdd(rI, RMul(rA, RSq(RSub(RSub(Cy, tf), rd))))
        Iy == RSum3(tIfy, tIwy, RMul(tIry, R(2)))
        far == IF RLeq(RSub(H, Cy), Cy) THEN Cy ELSE RSub(H, Cy)
    IN  IF A = Zero THEN Raised("ZeroDivisionError")
        ELSE LET e == FirstRaise(<<DivRaises(far), DivRaises(B),
                                   SqrtRaises(Iy, A), SqrtRaises(Iz, A)>>)
             IN  IF e # "none" THEN Raised(e)
                 ELSE Returned({"Ax", "Ay", "Az", "Iy", "Iz", "Zy", "Zz", "iy", "iz", "Cz"})

\* areas and inertias of o are kept as multiples of pi
o(params) ==
    IF ~Binds(params, {"D"}, {"t"}) THEN Raised("TypeError")
    ELSE
    LET D == R(params.D)
        th == IF "t" \in DOMAIN params THEN R(params.t) ELSE Zero
        A0 == RDiv(RSq(D), R(4))
        I0 == RDiv(RSq(RSq(D)), R(64))
        A == IF th # Zero THEN RSub(A0, RDiv(RSq(RSub(D, th)), R(4))) ELSE A0
        I == IF th # Zero THEN RSub(I0, RDiv(RSq(RSub(D, th)), R(64))) ELSE I0
        e == FirstRaise(<<DivRaises(D), SqrtRaises(I, A)>>)
    IN  IF e # "none" THEN Raised(e)
        ELSE Returned({"Ax", "Iy", "Iz", "Zy", "Zz", "iy", "iz", "J"})

\* section.py defines h, t and o only: the names i, c and r that convert
\* calls are not defined
Undefined(params) == Raised("NameError")

Pop(d, key) == [k \in DOMAIN d \ {key} |-> d[k]]

\* convert(d): the outcome, and the dictionary d as the call leaves it
convert(d) ==
    IF "shape" \notin DOMAIN d
    THEN [outcome |-> Raised("KeyError"), dict |-> d]
    ELSE LET shape == d.shape
             rest == Pop(d, "shape")
         IN  [outcome |->
                 CASE shape = "H" -> h(rest)
                   [] shape = "T" -> t(rest)
                   [] shape = "I" -> Undefined(rest)
                   [] shape = "O" -> o(rest)
                   [] shape = "C" -> Undefined(rest)
                   [] shape = "R" -> Undefined(rest)
                   [] OTHER -> Returned("None"),
              dict |-> rest]

\* properties(**d): shape takes d's 'shape', kwargs is a new dictionary of
\* the other entries; the outcome
properties(d) ==
    IF "shape" \notin DOMAIN d THEN Raised("TypeError")
    ELSE LET shape == d.shape
             kwargs == Pop(d, "shape")
             withShape == [k \in DOMAIN kwargs \cup {"shape"} |->
                              IF k = "shape" THEN shape ELSE kwargs[k]]
         IN  convert(withShape).outcome

------------------------------------------------------------------------------
(* The caller of convert and properties *)

Tags == {"H", "T", "I", "O", "C", "R", "X", "h"}

KeySets == {{}, {"D"}, {"D", "t"}, {"H", "B", "tw", "tf"}, {"H", "B", "tw", "tf", "r"}}

Dims(keys) == {f \in [keys -> 0 .. MaxDim] : "r" \in keys => f["r"] = 0}

WithShape(tag, f) == [k \in DOMAIN f \cup {"shape"} |-> IF k = "shape" THEN tag ELSE f[k]]

Dictionaries ==
    UNION {Dims(keys) \cup {WithShape(tag, f) : tag \in Tags, f \in Dims(keys)} :
               keys \in KeySets}

InitSection ==
    /\ fn = "section"
    /\ args = <<>>
    /\ lframe = NoValue
    /\ gframe = NoValue
    /\ tcalls = 0
    /\ out = <<>>
    /\ err = "none"
    /\ section_parameters \in Dictionaries
    /\ original = section_parameters
    /\ calls = <<>>

\* the caller calls convert(section_parameters)
CallConvert ==
    /\ fn = "section"
    /\ Len(calls) < MaxCalls
    /\ LET res == convert(section_parameters)
       IN  /\ section_parameters' = res.dict
           /\ calls' = Append(calls, [fn |-> "convert", given |-> section_parameters,
                                      outcome |-> res.outcome])
    /\ UNCHANGED <<lineVars, original>>

\* the caller calls properties(**section_parameters)
CallProperties ==
    /\ fn = "section"
    /\ Len(calls) < MaxCalls
    /\ calls' = Append(calls, [fn |-> "properties", given |-> section_parameters,
                               outcome |-> properties(section_parameters)])
    /\ UNCHANGED <<lineVars, section_parameters, original>>

NextSection == CallConvert \/ CallProperties

SpecSection == InitSection /\ [][NextSection]_vars

------------------------------------------------------------------------------
(* Both generators of line.py *)

InitLine == InitLocal \/ InitGlobal

NextLine == NextOfLocal \/ NextOfGlobal

SpecLine == InitLine /\ [][NextLine]_vars

------------------------------------------------------------------------------
(* Properties of stiffness_local *)

\* the inputs the specification calls valid
Valid(p) ==
    /\ p.L > 0 /\ p.E > 0 /\ p.G > 0 /\ p.Ax > 0
    /\ p.Iz >= 0 /\ p.Iy >= 0 /\ p.Ay >= 0 /\ p.Az >= 0 /\ p.J >= 0

RECURSIVE Drain(_, _, _, _)
\* list(stiffness_local(...)): next() until the generator stops or raises
Drain(f, p, np, acc) ==
    LET res == ResumeLocal(f, p, np)
    IN  IF res.kind = "yield" THEN Drain(res.frame, p, np, Append(acc, res.value))
        ELSE [blocks |-> acc, end |-> res.kind]

LocalRun(p, np) == Drain(NewLocal, p, np, <<>>)

IsLocal == fn = "stiffness_local"

IsGlobal == fn = "stiffness_global"

\* C1: for valid inputs the third block delivered (M21) is the transpose of
\* the second (M12), and the first (M11) and the fourth (M22) are symmetric.
C1_Symmetry ==
    (IsLocal /\ Valid(args)) =>
        /\ Len(out) >= 1 => \A i \in Six, j \in Six : out[1][i][j] = out[1][j][i]
        /\ Len(out) >= 3 => \A i \in Six, j \in Six : out[3][i][j] = out[2][j][i]
        /\ Len(out) >= 4 => \A i \in Six, j \in Six : out[4][i][j] = out[4][j][i]

\* all four blocks of a valid input are delivered, and M12 is not itself symmetric
C1_Witness ==
    /\ IsLocal /\ Valid(args) /\ Len(out) = 4
    /\ out[2][2][6] # out[2][6][2]

Invalid(p) ==
    \/ p.L <= 0 \/ p.E <= 0 \/ p.G <= 0
    \/ p.Ax < 0 \/ p.Iz < 0 \/ p.Iy < 0 \/ p.Ay < 0 \/ p.Az < 0 \/ p.J < 0

\* C2: stiffness_local ends in an error and delivers no matrix whenever
\* L <= 0, E <= 0, G <= 0 or one of Ax, Iz, Iy, Ay, Az, J is negative.
C2_InvalidInputRaises ==
    (IsLocal /\ Invalid(args)) =>
        /\ out = <<>>
        /\ lframe.pc # 0 => err # "none"

\* C4: a run of stiffness_local or stiffness_global that ends in an error
\* has delivered no block.
C4_FailFast == err # "none" => out = <<>>

\* stiffness_global has built its transform and fails in stiffness_local
C4_Witness == IsGlobal /\ tcalls = 1 /\ err = "ZeroDivisionError"

\* C5: the blocks delivered for Ay = 0 are those of a run with Ay = Ax and
\* the same Az, and the blocks delivered for Az = 0 are those of a run with
\* Az = Ax and the same Ay; the runs end the same way.
C5_Defaulting ==
    IsLocal =>
        /\ args.Ay = 0 =>
              LET other == LocalRun([args EXCEPT !.Ay = args.Ax], FALSE)
              IN  /\ \A k \in 1 .. Len(out) :
                        k <= Len(other.blocks) /\ out[k] = other.blocks[k]
                  /\ lframe.pc = 5 =>
                        /\ Len(out) = Len(other.blocks)
                        /\ (err = "none") = (other.end = "stop")
        /\ args.Az = 0 =>
              LET other == LocalRun([args EXCEPT !.Az = args.Ax], FALSE)
              IN  /\ \A k \in 1 .. Len(out) :
                        k <= Len(other.blocks) /\ out[k] = other.blocks[k]
                  /\ lframe.pc = 5 =>
                        /\ Len(out) = Len(other.blocks)
                        /\ (err = "none") = (other.end = "stop")

\* a valid input with Ay = 0, bending about z, and Az neither 0 nor Ax
C5_Witness ==
    /\ IsLocal /\ Valid(args) /\ Len(out) = 4
    /\ args.Ay = 0 /\ args.Iz > 0 /\ args.Az # 0 /\ args.Az # args.Ax

AxialOnly(p) ==
    /\ p.L > 0 /\ p.E > 0 /\ p.G > 0 /\ p.Ax > 0
    /\ p.Iz = 0 /\ p.Iy = 0 /\ p.Ay = 0 /\ p.Az = 0 /\ p.J = 0

\* C6: for positive L, E, G, Ax and Iz = Iy = Ay = Az = J = 0 nothing is
\* raised and every entry of every block is zero but [1][1], which is
\* E Ax / L in M11 and M22 and -E Ax / L in M12 and M21.
C6_AxialOnly ==
    (IsLocal /\ AxialOnly(args)) =>
        /\ err = "none"
        /\ lframe.pc = 5 => Len(out) = 4
        /\ \A k \in 1 .. Len(out) : \A i \in Six, j \in Six :
              out[k][i][j] =
                 IF i = 1 /\ j = 1
                 THEN (IF k \in {1, 4} THEN Norm(args.E * args.Ax, args.L)
                                       ELSE Norm(0 - args.E * args.Ax, args.L))
                 ELSE Zero

C6_Witness == IsLocal /\ AxialOnly(args) /\ args.L > 1 /\ Len(out) = 4

\* C7: for valid inputs with Iy = Iz and Ay = Az, in every block
\* [3][3] = [2][2], [5][5] = [6][6], [3][5] = -[2][6] and [5][3] = -[6][2];
\* in M11, [2][6] >= 0 and [3][5] <= 0.
C7_Mirrored ==
    (IsLocal /\ Valid(args) /\ args.Iy = args.Iz /\ args.Ay = args.Az) =>
        /\ \A k \in 1 .. Len(out) :
              /\ out[k][3][3] = out[k][2][2]
              /\ out[k][5][5] = out[k][6][6]
              /\ out[k][3][5] = RNeg(out[k][2][6])
              /\ out[k][5][3] = RNeg(out[k][6][2])
        /\ Len(out) >= 1 =>
              /\ RLeq(Zero, out[1][2][6])
              /\ RLeq(out[1][3][5], Zero)

C7_Witness ==
    /\ IsLocal /\ Valid(args) /\ args.Iy = args.Iz /\ args.Ay = args.Az
    /\ Len(out) = 4 /\ out[1][2][6] # Zero

\* C10: for valid inputs, in every row i and every translational column
\* j in 1 .. 3, M11[i][j] + M12[i][j] = 0 and M21[i][j] + M22[i][j] = 0.
C10_RigidTranslation ==
    (IsLocal /\ Valid(args)) =>
        /\ Len(out) >= 2 =>
              \A i \in Six, j \in 1 .. 3 : RAdd(out[1][i][j], out[2][i][j]) = Zero
        /\ Len(out) >= 4 =>
              \A i \in Six, j \in 1 .. 3 : RAdd(out[3][i][j], out[4][i][j]) = Zero

C10_Witness ==
    /\ IsLocal /\ Valid(args) /\ Len(out) = 4
    /\ out[1][6][2] # Zero /\ out[3][5][3] # Zero

------------------------------------------------------------------------------
(* Properties of stiffness_global *)

RECURSIVE SumSeq(_)
SumSeq(q) == IF q = <<>> THEN Zero ELSE RAdd(SumSeq(SubSeq(q, 1, Len(q) - 1)), q[Len(q)])

\* the matrix whose entry (i, j) is the sum over a, b of Tb[i][a] M[a][b] Tb[j][b]
Similarity(Tb, M) ==
    Mat6([i \in Six |-> [j \in Six |->
            SumSeq(Tup6([a \in Six |->
               IF Tb[i][a] = Zero THEN Zero
               ELSE RMul(Tb[i][a],
                         SumSeq(Tup6([b \in Six |-> RMul(M[a][b], Tb[j][b])])))]))]])

\* C3: stiffness_global calls transformMatrix once; its k-th block is
\* Tb Mk Tb^T, with Tb = block_diag(T, T) and Mk the k-th block of
\* stiffness_local for L = norm((x, y, z)) and the same E, G, Ax, Iz, Iy, Ay,
\* Az, J; a run that ends without an error has delivered four blocks.
C3_Similarity ==
    IsGlobal =>
        /\ tcalls = (IF gframe.pc = 0 THEN 0 ELSE 1)
        /\ Len(out) <= 4
        /\ (gframe.pc = 5 /\ err = "none") => Len(out) = 4
        /\ out # <<>> =>
              LET T == transformMatrix(args.x, args.y, args.z, args.theta)
                  Tb == block_diag(T, T)
                  local == LocalRun([L |-> norm(args.x, args.y, args.z),
                                     E |-> args.E, G |-> args.G, Ax |-> args.Ax,
                                     Iz |-> args.Iz, Iy |-> args.Iy,
                                     Ay |-> args.Ay, Az |-> args.Az, J |-> args.J],
                                    TRUE)
              IN  \A k \in 1 .. Len(out) : out[k] = Similarity(Tb, local.blocks[k])

\* four blocks delivered for a direction off the axes, a quarter turn of
\* roll and unequal bending stiffnesses
C3_Witness ==
    /\ IsGlobal /\ Len(out) = 4 /\ gframe.pc = 5
    /\ args.x # 0 /\ args.y # 0 /\ args.theta = 1
    /\ args.Iz > 0 /\ args.Iy > 0 /\ out[1][2][2] # out[1][3][3]

------------------------------------------------------------------------------
(* Properties of convert and properties *)

\* the shape tags of convert's if-chain (lines 35-45)
Recognised == {"H", "T", "I", "O", "C", "R"}

UnknownTag(d) == "shape" \in DOMAIN d /\ d.shape \notin Recognised

\* C8: convert and properties raise for every shape tag that is not
\* recognised; they never return for one.
C8_UnknownTagRaises ==
    \A n \in 1 .. Len(calls) :
        UnknownTag(calls[n].given) => calls[n].outcome.kind = "raise"

\* C9: a call of convert leaves the caller's dictionary as it was, and
\* repeated calls of convert end the same way.
C9_NoSideEffects ==
    /\ section_parameters = original
    /\ \A m \in 1 .. Len(calls), n \in 1 .. Len(calls) :
          (calls[m].fn = "convert" /\ calls[n].fn = "convert") =>
              calls[m].outcome = calls[n].outcome

====
